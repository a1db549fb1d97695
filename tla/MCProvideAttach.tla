--------------------------- MODULE MCProvideAttach ---------------------------
(* Model checking instance of ProvideAttach: three requests, of which the     *)
(* second shares a mirror with each of the others.  They mount media without  *)
(* media file, download one media file, or have different media files.      *)
EXTENDS ProvideAttach, TLC

CONSTANTS a1, a2, a3, u1, u2, f1, f2

MCItem   == {a1, a2, a3}
MCUrl    == {u1, u2}
MCUrlsOf == (a1 :> {u1}) @@ (a2 :> {u1, u2}) @@ (a3 :> {u2})
MCFile   == {f1, f2}
MCBroken == {f2}
MCSetup  ==
    { [mounts |-> TRUE,  file |-> [a \in Item |-> NoFile]],
      [mounts |-> FALSE, file |-> [a \in Item |-> f1]],
      [mounts |-> FALSE, file |-> (a1 :> f1) @@ (a2 :> f2) @@ (a3 :> NoFile)] }

(* Two requests with a common mirror, for progress.                           *)
TwoItems   == {a1, a2}
TwoUrlsOf  == (a1 :> {u1}) @@ (a2 :> {u1, u2})
TwoSetup   ==
    { [mounts |-> TRUE,  file |-> [a \in Item |-> NoFile]],
      [mounts |-> FALSE, file |-> (a1 :> f1) @@ (a2 :> f1)],
      [mounts |-> FALSE, file |-> (a1 :> f2) @@ (a2 :> NoFile)] }
=============================================================================
