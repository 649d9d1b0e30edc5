CONSTANTS
 Kinds = {"Startup","Query","Terminate"}
 MaxSent = 3
 MaxQueued = 6
 RECV_BUF_INITIAL = 8
 RECV_MIN = 8
 SEND_BUF_INITIAL = 8
 SOCKET_ROOM = 16
SPECIFICATION FairSpec
PROPERTIES MessagesHandled
CHECK_DEADLOCK FALSE
