---------------------------- MODULE MCImapPoller ----------------------------
(* Small instances of ImapPoller for TLC.                                  *)
EXTENDS ImapPoller, TLC

CONSTANTS m1, m2, m3, p1, p2
=============================================================================
