-------------------------- MODULE MC_SessionManager --------------------------
(* Model values for SessionManager: connection slots and the nil entry.  *)
EXTENDS SessionManager

CONSTANTS s1, s2, s3, s4

\* Three handlers over three IDs: at most two other sessions are tracked
\* when one accepts, so the ID loop always finds a free ID after a wrap.
ThreeSlots == {s1, s2, s3}

\* Four handlers over three IDs: every ID can be in use when one accepts.
FourSlots == {s1, s2, s3, s4}
=============================================================================
