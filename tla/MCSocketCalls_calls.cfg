CONSTANTS
  Threads = {1, 2}
  Fds = {1, 2}
  Shared = FALSE
  CallSets = {{"options"}, {"bind"}, {"recv", "send"}, {"recv", "nonblock"}, {"select"}}
  Opts = {"TCPSACK", "WINSCALE", "SNDBUF", "RCVBUF", "MAXMSG", "MAXSEG", "LINGER", "NBIO", "NONBLOCK",
          "NODELAY", "NOSLOWSTART", "SNDLOWAT", "TXDATA"}
  Values <- MCValues
  MSS = 1460
  Ips = {wifi, ax1}
  AxIps = {ax1}
  NoIp = NoIp
  Count = 2
  MaxDatagrams = 2
  MaxCalls = 2
SPECIFICATION Spec
INVARIANTS RewriteIsFtp 
PROPERTIES ImplementsNative CallEnds
