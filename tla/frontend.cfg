CONSTANTS
 Kinds = {"Startup","SSLRequest","CancelRequest","LongStartup","Query","Terminate","Parse","CopyData","CopyDone","BadLength"}
 MaxSent = 3
 MaxQueued = 6
 RECV_BUF_INITIAL = 3
 RECV_MIN = 4
 SEND_BUF_INITIAL = 2
 SOCKET_ROOM = 4
SPECIFICATION FairSpec
INVARIANTS TypeOK StreamIntact  RepliesIntact NoFalseEof RepliesScheduled
PROPERTIES Delivered AnswersArrive
CHECK_DEADLOCK FALSE
