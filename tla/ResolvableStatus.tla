--------------------------- MODULE ResolvableStatus ---------------------------
(* What is to become of one version of a package: it is kept as it is, locked  *)
(* or transacts, by the decision of a causer.  The setters of a status as      *)
(* operators that return the status after the call, or Refused.              *)
EXTENDS Integers

(* The causers, from the weakest to the strongest.                            *)
SOLVER    == 0
APPL_LOW  == 1
APPL_HIGH == 2
USER      == 3
Causer    == SOLVER..USER

StatusType == [value : {"keep", "locked", "transact"}, by : Causer]

(* What setters return when the causer may not: calls of setters on it are     *)
(* refused as well, as a caller returns at the first that fails.             *)
Refused == [value |-> "refused", by |-> SOLVER]

NoDecision == [value |-> "keep", by |-> SOLVER]

Transacts(s) == s.value = "transact"
IsLocked(s)  == s.value = "locked"

(* A stronger causer of what is already so is remembered.                     *)
RaisedTo(s, c) == [s EXCEPT !.by = IF c > s.by THEN c ELSE s.by]

(* Whoever is weaker than the causer of a lock or of a transaction may not     *)
(* end it; a version that is only kept may be changed by everybody.          *)
Outranked(s, c) == s.value # "keep" /\ c < s.by

SetTransact(s, yes, c) ==
    IF s = Refused \/ (Transacts(s) # yes /\ Outranked(s, c)) THEN Refused
    ELSE IF Transacts(s) # yes THEN [value |-> IF yes THEN "transact" ELSE "keep", by |-> c]
    ELSE IF yes THEN RaisedTo(s, c)
    ELSE s

(* A lock starts from what the causer may keep; it ends without a causer.     *)
SetLock(s, yes, c) ==
    IF s = Refused THEN Refused
    ELSE IF IsLocked(s) = yes THEN IF yes THEN RaisedTo(s, c) ELSE s
    ELSE IF c \notin {USER, APPL_HIGH} \/ Outranked(s, c) THEN Refused
    ELSE IF yes THEN [value |-> "locked", by |-> c]
    ELSE NoDecision

(* Unlike SetTransact(s, FALSE, c) it leaves no causer behind.                *)
ResetTransact(s, c) ==
    LET t == SetTransact(s, FALSE, c)
    IN  IF t.value = "keep" THEN NoDecision ELSE t

(* A call whose result is ignored.                                            *)
Try(s, t) == IF t = Refused THEN s ELSE t

Lock(s, c)   == SetLock(SetTransact(s, FALSE, c), TRUE, c)
Unlock(s, c) == SetLock(SetTransact(s, FALSE, c), FALSE, c)
=============================================================================
