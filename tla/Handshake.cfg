\* The broker rejects, keeps the socket, names a CAS, a port nobody listens on,
\* or a number that the cast to u16 turns into another CAS's port.
CONSTANTS
    Dsns <- DsnCases
    Numerals <- Numbers
    Escapes <- Hex
    BrokerPort = 33000
    CasPorts = {30001, 30002}
    Answers <- BrokerAnswerCases
    PortSpace = 65536
    NoAnswer = NoAnswer
SPECIFICATION FairSpec
INVARIANTS
    DsnMeansWhatItSays
    CredentialsToCas
    ConnectedOrNothing
PROPERTIES
    ConnectReturns
CHECK_DEADLOCK FALSE
