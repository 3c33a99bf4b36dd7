--------------------------- MODULE ConfigService ---------------------------
(***************************************************************************)
(* What the configuration store promises the owner of the device, whatever *)
(* is cut off and whatever fails: there is one configuration in use, and   *)
(* one that the next boot will make of what is in flash, and each changes  *)
(* only when the page, a restart or a factory reset says so.               *)
(***************************************************************************)
CONSTANTS
    Loaded(_),       \* the configuration a boot makes of what is in flash
    Repaired(_),     \* ... and of a configuration that is there in full
    Usable(_),       \* every component can start from it
    NetsUsable(_),   \* its networks are valid and apart
    Default, Nothing

VARIABLES
    live,        \* the configuration in use
    flash,       \* what is in flash, in whatever form
    saving,      \* the configuration being saved, or Nothing
    stored,      \* it is stored in full, and about to be used
    reset        \* a factory reset waits for the restart

svars == <<live, flash, saving, stored, reset>>

Init ==
    /\ live = Loaded(flash) /\ Usable(live)
    /\ saving = Nothing /\ stored = FALSE /\ reset = FALSE

Begin ==
    /\ saving = Nothing
    /\ saving' # Nothing /\ NetsUsable(saving')
    /\ UNCHANGED <<live, flash, stored, reset>>

\* A save is not atomic: until it is complete the next boot may find any mixture,
\* but a usable one.
Write ==
    /\ saving # Nothing /\ ~stored /\ ~reset
    /\ flash' # flash /\ Usable(Loaded(flash'))
    /\ UNCHANGED <<live, saving, stored, reset>>

Complete ==
    /\ saving # Nothing /\ ~stored /\ ~reset
    /\ stored' = TRUE /\ Loaded(flash) = Repaired(saving)
    /\ UNCHANGED <<live, flash, saving, reset>>

Fail ==
    /\ saving # Nothing /\ ~stored
    /\ saving' = Nothing
    /\ UNCHANGED <<live, flash, stored, reset>>

Adopt ==
    /\ stored
    /\ live' = saving
    /\ saving' = Nothing /\ stored' = FALSE
    /\ UNCHANGED <<flash, reset>>

\* Nothing that is being saved is written any more.  The erase may fail or be cut
\* off and nobody is told, but what it leaves can be used.
Reset ==
    /\ ~reset
    /\ reset' = TRUE /\ Usable(Loaded(flash'))
    /\ UNCHANGED <<live, saving, stored>>

\* A boot uses what was there for it, or the defaults when it finds flash damaged.
Boot ==
    /\ saving' = Nothing /\ stored' = FALSE /\ reset' = FALSE
    /\ flash' = flash \/ Loaded(flash') = Default
    /\ live' = Loaded(flash')

Next == Begin \/ Write \/ Complete \/ Fail \/ Adopt \/ Reset \/ Boot

Spec == Init /\ [][Next]_svars
=============================================================================
