SPECIFICATION HandleSpec
CONSTANTS
  PIPs = {p1, p2}
  OHs = {h1}
  StringOptions = {url, ciphers}
  EndpointUrl = url
  Addresses = {a1, a2}
  NULL = NULL
  CurlCopies = TRUE
  MaxPlugins = 2
  MaxOwed = 2
  DefaultTimeout = 1
  MaxTimeout = 1
INVARIANTS HandleTypeOK OwedIsListedOrLost OnlyHeadersLeak CurlMirrorsOptions
PROPERTY DestroyTerminates
