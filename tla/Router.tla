------------------------------- MODULE Router -------------------------------
(***************************************************************************)
(* internal/engine/route.go: the channels a message goes to.  A rule's     *)
(* severity or monitor is AnyMatch when the configuration leaves it empty. *)
(* A rule's channel list is a set: Registry.Send tries every one of them,  *)
(* and nothing the properties speak of depends on the order.               *)
(***************************************************************************)
EXTENDS Naturals, Sequences

CONSTANTS
    Channels,    \* every channel name the configuration mentions
    Rules        \* config.Routing

AnyMatch == ""

\* An empty match never matches; otherwise every non-empty field must agree.
MatchRule(rule, m) ==
    /\ ~(rule.severity = AnyMatch /\ rule.monitor = AnyMatch)
    /\ rule.severity \in {AnyMatch, m.severity}
    /\ rule.monitor \in {AnyMatch, m.monitor}

Matching(m) == {i \in 1..Len(Rules) : MatchRule(Rules[i], m)}

\* The first rule that matches decides.
Routed(m) ==
    Rules[CHOOSE i \in Matching(m) : \A j \in Matching(m) : i <= j].channels

\* Router.Channels: no rule, and the defaults get it.
ChannelsFor(m, defaults) == IF Matching(m) = {} THEN defaults ELSE Routed(m)

\* Mutant: there is no default channel but the preferred one.
OnlyPreferred(registered, preferred) == {preferred \cap registered}

(***************************************************************************)
(* main's defaultChannels: the channel that the configuration prefers, if  *)
(* there is a notifier for it, else the first name that Registry.Names     *)
(* lists.  Names ranges over a Go map, so any one of them may come first.  *)
(***************************************************************************)
DefaultChannels(registered, preferred) ==
    IF preferred \cap registered # {} THEN {preferred \cap registered}
    ELSE IF registered = {} THEN {{}} ELSE {{c} : c \in registered}
=============================================================================
