-------------------------- MODULE MCSessionRequests ---------------------------
(* A session with the traffic that the runs mix.                           *)
EXTENDS SessionRequests

TrafficBound ==
  {{"WRITE", "INTERRUPT"}, {"STATX", "INTERRUPT"}, {"NOTIFY_REPLY", "INTERRUPT"},
   {"SETLK", "DESTROY", "INIT"}, {"INTERRUPT", "DESTROY", "INIT"},
   {"OPEN", "IOCTL"}, {"FORGET", "STATFS"}, {"CUSE_INIT", "UNKNOWN"}}

ImplementedOps == {"WRITE_BUF", "SETLK", "RETRIEVE_REPLY"}
===============================================================================
