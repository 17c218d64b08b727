SPECIFICATION Spec
CONSTANTS
  MAX_KEY_SLOTS = 8
  Slots = {0, 7, 8}
  Flags = {0, 1}
  Times = {0, 1}
  CsrLens = {0, 1, 1024, 1025, 2016, 2017}
  DnLens = {0, 1, 240, 241}
  CertLens = {0, 700, 1024, 2000}
  ChainLens = {0, 970, 989, 990, 1013}
  NameLens = {0, 1, 31, 32}
  SerialLens = {0, 1, 20, 21}
  StrLens = {0, 64, 65}
  RandomLens = {0, 1, 4077, 4078, 4080, 4081}
  ImageLens = {0, 1, 1900, 4000}
  OutLens = {0, 1, 255, 4077, 4078, 4094}
  ListLens = {0, 1, 2, 24, 48, 49, 50}
  Stops = {0, 2}
  GivenUp = {"get_ca_cert", "list_keys"}
  LeafLens = {600, 1024, 1025}
  IssuerLens = {500, 989}
INVARIANT ErrorsAreAnswered
