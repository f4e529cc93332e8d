\* Each protocol proxy, over small policies and every order of what its peers do.
CONSTANTS
    Pop3Policies <- MCPop3Policies
    PermitUnknown <- MCPermitUnknown
    Pop3Commands <- MCPop3Commands
    MaxAuthLines = 2
    MaxRequests = 6
    BufferSize = 4
    Lines <- MCLines
    MaxLines = 3
    MaxChild = 4
    LongLine = {TRUE, FALSE}
    MaxShort = 2
    SmtpSecurities <- MCSecurities
    RequestPolicies <- MCRequestPolicies
    ListedExtensions <- MCExtensions
    MaxMailCommands = 6
    FtpConfs <- MCFtpConfs
    FtpMaxCommands = 5
    WebConfs <- MCWebConfs
    WebRequests <- MCWebRequests
    WebMax = 3
    Messages <- MCMessages
    WritesSplit = {"preamble", "length", "data", "footer", "shutdown"}
    BufferBytes = 2
    UIntSpan = 8
    HeaderInputs <- MCHeaderInputs
    MaxHeaderLines = 3
    TelnetConfs <- MCTelnetConfs
    WireInputs <- MCWireInputs
    SubBytes = 3
SPECIFICATION ProxiesSpec
INVARIANTS
    Pop3Session SmtpTransaction DotTransferred FtpControl HttpExchange
    HttpBodyFramed HttpHeadersFiltered TelnetSession TelnetRelayed
PROPERTY FtpBounceChecked
CHECK_DEADLOCK FALSE
