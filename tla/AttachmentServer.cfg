\* Two requests over two files, two rows and one conversation, in a server that restarts.
CONSTANTS
    r1 = r1
    r2 = r2
    c1 = c1
    Requests <- MCRequests
    Serves <- MCServes
    Conversations <- MCConversations
    Uploads <- MCUploads
    Messages <- MCMessages
    MaxRows = 2
    CloudName = "cloud"
    MaxRetries = 2
SPECIFICATION SystemSpec
INVARIANTS
    SystemTypeOK
    DanglingHasCause
    ErasedIsGone
    DocumentsAreTheFiles
    StoresOutliveWork
PROPERTY ServerDecides
