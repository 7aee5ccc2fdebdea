SPECIFICATION Spec
CONSTANTS
    r1 = r1
    r2 = r2
    x1 = x1
    x2 = x2
    None = None
    Pipeline <- MCPipeline
    Webhook <- MCWebhook
    Estate <- MCEstate
    Files <- MCFiles
    Partners <- MCPartners
    Ledger <- MCLedger
    Snapshot <- MCSnapshot
    Messages <- MCMessages
    Mail <- MCMail
    Mailings <- MCMailings
SYMMETRY Symmetry
INVARIANTS
    TypeOK
    FreshUntilContact
    
    OpensWhatIsShown
    
    ViewsAgree
    
    MessagesAreKept
    
PROPERTIES
    LedgerImplementsRecord
    
    NeverContactSuppressed
CHECK_DEADLOCK FALSE
