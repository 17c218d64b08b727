------------------------------ MODULE MCDevice ------------------------------
\* Instances of Device for TLC.
EXTENDS Device

CONSTANTS c1, c2

MCClients == {c1, c2}
MCOrder   == <<c1, c2>>

\* Every pairing method, every kind of volume and every build option; Kconfig has
\* no strict build of the promiscuous method.
MCSetups ==
  { <<"PASSKEY", {"STRICT"}, "marked">>,
    <<"TAP_CONFIRM", {"STRICT"}, "premarker">>,
    <<"TAP_CONFIRM", {"MARKER_ADOPT"}, "unmarked">>,
    <<"TAP_CONFIRM", {"STRICT"}, "unmarked">>,
    <<"TOFU", {"MAY_FORMAT", "FACTORY_FORCE"}, "blank">>,
    <<"CA_ANCHOR", {"MAY_FORMAT"}, "premarker">>,
    <<"CA_ANCHOR_PLUS_PASSKEY", {"STRICT"}, "premarker">>,
    <<"PROMISCUOUS", {"MARKER_ADOPT"}, "foreign">> }

MCPaths == SystemPaths \cup BondPaths
=============================================================================
