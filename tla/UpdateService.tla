---------------------------- MODULE UpdateService ----------------------------
(***************************************************************************)
(* What a firmware update promises the owner of the device, whatever is    *)
(* uploaded and wherever it is cut off: the device runs the image that has *)
(* shown that it works, but for one trial of what was installed in full.   *)
(***************************************************************************)
CONSTANTS
    Images, Works,   \* complete images, and those that come up
    Nothing

VARIABLES
    trusted,     \* the image that has come up before
    candidate,   \* the one installed since, or Nothing
    tried,       \* the candidate has had its trial
    runs         \* what the device runs, or Nothing

uvars == <<trusted, candidate, tried, runs>>

Init ==
    /\ trusted \in Works /\ candidate = Nothing /\ tried = FALSE
    /\ runs = trusted

\* Only the trusted image installs another, and never over one that awaits its trial.
Install ==
    /\ candidate = Nothing /\ runs = trusted
    /\ candidate' \in Images
    /\ UNCHANGED <<trusted, tried, runs>>

Stop ==
    /\ runs # Nothing /\ runs' = Nothing
    /\ UNCHANGED <<trusted, candidate, tried>>

Start ==
    /\ runs = Nothing /\ candidate = Nothing
    /\ runs' = trusted
    /\ UNCHANGED <<trusted, candidate, tried>>

Try ==
    /\ runs = Nothing /\ candidate # Nothing /\ ~tried
    /\ runs' = candidate /\ tried' = TRUE
    /\ UNCHANGED <<trusted, candidate>>

\* The candidate came up and takes the place of the trusted image ...
Confirm ==
    /\ tried /\ runs = candidate /\ candidate \in Works
    /\ trusted' = candidate /\ candidate' = Nothing /\ tried' = FALSE
    /\ UNCHANGED runs

\* ... or it stopped before, and is given up.
GoBack ==
    /\ tried /\ runs = Nothing
    /\ runs' = trusted /\ candidate' = Nothing /\ tried' = FALSE
    /\ UNCHANGED trusted

Next == Install \/ Stop \/ Start \/ Try \/ Confirm \/ GoBack

Spec == Init /\ [][Next]_uvars
=============================================================================
