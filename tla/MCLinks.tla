------------------------------- MODULE MCLinks -------------------------------
(***************************************************************************)
(* The bot's writes (BotRun) and a thread's links (Links), which share no  *)
(* state: a behaviour is one's, the other stays at its first state.  Order *)
(* 2 may be made while order 1 is there, and holds all its shifts.         *)
(***************************************************************************)
EXTENDS MCBotRun, Links

SameNumbers == {}
RebuiltAs == {<<1, 2>>}

VARIABLE part

writesVars == <<part, vars, linksVars>>

WritesInit == part \in {"bot", "links"} /\ Init /\ LinksInit

WritesNext ==
    \/ part = "bot" /\ Next /\ UNCHANGED <<part, linksVars>>
    \/ part = "links" /\ LinksNext /\ UNCHANGED <<part, vars>>

(* LinksFair, of the part that runs. *)
WritesFair ==
    /\ \A s \in LinkSync : WF_linksVars(part = "links" /\ LinkSyncStep(s))
    /\ \A f \in Finder : WF_linksVars(part = "links" /\ FinderStep(f))
    /\ WF_linksVars(part = "links" /\ ReadOrders)

WritesSpec == WritesInit /\ [][WritesNext]_writesVars /\ WritesFair

=============================================================================
