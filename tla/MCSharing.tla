----------------------------- MODULE MCSharing ------------------------------
(* Sharing for TLC: unshare() with each flag alone, and with the pairs whose *)
(* copies are made one after the other.                                      *)
EXTENDS Sharing

MCUnshareRequests ==
  {{f} : f \in {"VM", "FS", "FILES", "SIGHAND", "THREAD", "NEWNS", "NEWUSER", "NEWPID", "NEWTIME"}}
    \cup {{"FILES", f} : f \in {"FS", "NEWNS"}}
=============================================================================
