--------------------------- MODULE AlertLifecycle ---------------------------
(***************************************************************************)
(* What the engine promises about conditions and notifications, without    *)
(* queues, scans, digests, channels or clocks.  A condition is open or     *)
(* not; a notification is due from the moment the engine decides to give   *)
(* it until every channel it is routed to has been tried.  A notification  *)
(* that is due is never forgotten, and a resolved one is only ever due     *)
(* because an open condition was closed.                                   *)
(***************************************************************************)
CONSTANT Conditions

Notices == {"firing", "resolved"} \X Conditions

VARIABLES
    open,   \* conditions considered to hold
    due,    \* notifications decided on and not given yet
    given,  \* the notifications given last
    up      \* the engine runs

avars == <<open, due, given, up>>

LifeInit == open = {} /\ due = {} /\ given = {} /\ up = TRUE

\* A firing notification is decided on; the condition opens in a later step.
Admit(c) == /\ up /\ due' = due \cup {<<"firing", c>>}
            /\ UNCHANGED <<open, given, up>>

Open(c) == /\ up /\ open' = open \cup {c}
           /\ UNCHANGED <<due, given, up>>

\* Conditions close together, and each closing owes one notification.
Close(C) == /\ up /\ C # {} /\ C \subseteq open
            /\ open' = open \ C
            /\ due' = due \cup {<<"resolved", c>> : c \in C}
            /\ UNCHANGED <<given, up>>

\* Notifications D are given together; those in K had been decided on once
\* more in the meantime and stay due.
Give(D, K) == /\ up /\ D # {} /\ D \subseteq due /\ K \subseteq D
              /\ due' = (due \ D) \cup K
              /\ given' = D
              /\ UNCHANGED <<open, up>>

\* A reset forgets conditions without a word; what is due stays due.
Forget == /\ open' = {}
          /\ UNCHANGED <<due, given, up>>

Halt == /\ up /\ up' = FALSE
        /\ UNCHANGED <<open, due, given>>

LifeNext == \/ \E c \in Conditions : Admit(c) \/ Open(c)
            \/ \E C \in SUBSET open : Close(C)
            \/ \E D \in SUBSET due : \E K \in SUBSET D : Give(D, K)
            \/ Forget \/ Halt

GiveNotice(n) == \E D \in SUBSET due : \E K \in SUBSET D : n \in D \ K /\ Give(D, K)

LifeSpec == LifeInit /\ [][LifeNext]_avars
LifeFairSpec == LifeSpec /\ \A n \in Notices : WF_avars(GiveNotice(n))
=============================================================================
