---------------------------- MODULE TurnRegistry ----------------------------
(***************************************************************************)
(* What the turn manager promises to the chat handlers: a conversation has *)
(* at most one running turn; a finished one is kept for a while, for       *)
(* clients that come back late, and then forgotten.                        *)
(*                                                                         *)
(* Turns refines this specification; Chat is written on top of its actions.*)
(***************************************************************************)

CONSTANTS Convs       \* conversations.id

VARIABLES
    running,          \* conversations whose turn is running
    kept              \* conversations whose last turn is finished and kept

regVars == <<running, kept>>

RegTypeOK ==
    /\ running \in SUBSET Convs
    /\ kept \in SUBSET Convs
    /\ running \cap kept = {}

RegInit == running = {} /\ kept = {}

\* TurnManager.Start when no turn of c is running; it replaces a kept one.
Begin(c) ==
    /\ c \notin running
    /\ running' = running \cup {c}
    /\ kept' = kept \ {c}

\* markFinished, after the turn's body returned or panicked.
End(c) ==
    /\ c \in running
    /\ running' = running \ {c}
    /\ kept' = kept \cup {c}

\* The retention timer.
Forget(c) ==
    /\ c \in kept
    /\ kept' = kept \ {c}
    /\ UNCHANGED running

RegNext == \E c \in Convs : Begin(c) \/ End(c) \/ Forget(c)

RegSpec == RegInit /\ [][RegNext]_regVars
=============================================================================
