------------------------------ MODULE MCPreview ------------------------------
(***************************************************************************)
(* Preview for TLC: a submission, its retry under another allocation, a    *)
(* submission competing for the only record of the first allocation, and   *)
(* one that reuses the first key for another request.                      *)
(***************************************************************************)
EXTENDS Preview

CONSTANTS s1, s2, s3, s4

Ask(key, task, digest, allocation) ==
    [key |-> key, task |-> task, digest |-> digest, allocation |-> allocation]

FourAsks ==
    [s \in {s1, s2, s3, s4} |->
        CASE s = s1 -> Ask("k1", "t1", "d1", "a")
          [] s = s2 -> Ask("k1", "t1", "d1", "b")
          [] s = s3 -> Ask("k2", "t2", "d2", "a")
          [] s = s4 -> Ask("k1", "t2", "d2", "b")]
=============================================================================
