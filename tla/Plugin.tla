------------------------------- MODULE Plugin -------------------------------
(***************************************************************************)
(* The entry point and the controller it registers, over any number of     *)
(* starts of REAPER.  The controller is in use from its registration on.   *)
(* Its state is lost when REAPER ends: what happens then is the same       *)
(* whatever the state was, so that only a controller in its initial state  *)
(* is left.                                                                *)
(***************************************************************************)
EXTENDS Controller, EntryPoint

pluginVars == <<vars, entryVars>>

PluginInit == Init /\ EntryInit

Registered(A) == entry = "registered" /\ A /\ UNCHANGED entryVars

PluginNext ==
  \/ (Start \/ (Init /\ Quit)) /\ UNCHANGED vars
  \/ Registered(Next)

(* Fairness of Controller, for as long as the controller is registered.    *)
PluginFairness ==
  /\ WF_pluginVars(Registered(Run)) /\ WF_pluginVars(Registered(EndCheck))
  /\ \A th \in Threads : WF_pluginVars(Registered(Task(th)))

PluginSpec == PluginInit /\ [][PluginNext]_pluginVars /\ PluginFairness

=============================================================================
