---------------------------- MODULE PluginProofs ----------------------------
(***************************************************************************)
(* Proofs about Plugin: what is cached, and that the starts and ends of    *)
(* REAPER leave the controller what ControllerProofs proves of it.         *)
(***************************************************************************)
EXTENDS Plugin, ControllerProofs

(* A cached address is one that the user entered and that was accepted; so *)
(* is the one that is about to be cached.  The file is in pieces only      *)
(* between its opening and its writing, or after a write that was cut      *)
(* short.                                                                  *)
CacheInv ==
  /\ cache \in Inputs \union {NoFile, Torn}
  /\ cache \in Inputs => ValidateIP(cache) = "yes"
  /\ entry \in {"save", "write"} => address \in Inputs /\ ValidateIP(address) = "yes"
  /\ cache = Torn => cut \/ entry = "write"
  /\ entry = "ask" => cache # Torn
  /\ entry = "validate" => address \in Inputs

(* The entry point takes a step, the process ends, or neither happens.     *)
EntryNext == Start \/ Quit \/ UNCHANGED entryVars

LEMMA StepOfEntry ==
  ASSUME [PluginNext]_pluginVars
  PROVE  EntryNext
  BY DEF PluginNext, pluginVars, Registered, EntryNext

LEMMA CacheStep ==
  ASSUME EntryAssumption, CacheInv, EntryNext
  PROVE  CacheInv'
<1> USE DEF EntryAssumption, CacheInv
<1>1. CASE BailOut \/ LoadCache
  BY <1>1 DEF BailOut, LoadCache
<1>2. CASE GetUserInputs
  BY <1>2 DEF GetUserInputs
<1>3. CASE Validate
  <2>1. CASE ValidateIP(address) = "yes"
    BY <1>3, <2>1 DEF Validate
  <2>2. CASE ValidateIP(address) = "no"
    BY <1>3, <2>2 DEF Validate
  <2>3. CASE ValidateIP(address) = "throws"
    BY <1>3, <2>3 DEF Validate
  <2> QED
    BY <2>1, <2>2, <2>3 DEF ValidateIP
<1>4. CASE OpenCache
  BY <1>4 DEF OpenCache
<1>5. CASE WriteCache
  BY <1>5 DEF WriteCache
<1>6. CASE Register \/ Quit
  BY <1>6 DEF Register, Quit
<1>7. CASE UNCHANGED entryVars
  BY <1>7 DEF entryVars
<1> QED
  BY <1>1, <1>2, <1>3, <1>4, <1>5, <1>6, <1>7 DEF EntryNext, Start

LEMMA CacheInvCorrect == PluginSpec => []CacheInv
<1>1. PluginInit => CacheInv
  BY EntryAssumption DEF PluginInit, EntryInit, CacheInv, EntryAssumption
<1>2. CacheInv /\ [PluginNext]_pluginVars => CacheInv'
  BY StepOfEntry, CacheStep, EntryAssumption
<1> QED
  BY <1>1, <1>2, PTL DEF PluginSpec

(* In any sequence of starts, of inputs and of crashes, an address that is *)
(* offered is accepted.                                                    *)
THEOREM OffersAreAccepted == PluginSpec => []OfferIsAccepted
<1>1. CacheInv => OfferIsAccepted
  BY DEF CacheInv, OfferIsAccepted
<1> QED
  BY <1>1, CacheInvCorrect, PTL

-----------------------------------------------------------------------------
(* Unless the last write was cut short, what the entry point throws at is  *)
(* an input of this start.                                                 *)
THEOREM StartsUnlessTorn == PluginSpec => []AsksUnlessTorn
<1>1. PluginInit => AsksUnlessTorn
  BY DEF PluginInit, EntryInit, AsksUnlessTorn
<1>2. CacheInv /\ AsksUnlessTorn /\ [PluginNext]_pluginVars => AsksUnlessTorn'
  <2> SUFFICES ASSUME CacheInv, AsksUnlessTorn, EntryNext
               PROVE  AsksUnlessTorn'
    BY StepOfEntry
  <2> USE EntryAssumption DEF EntryAssumption, CacheInv, AsksUnlessTorn
  <2>1. CASE BailOut \/ LoadCache
    BY <2>1 DEF BailOut, LoadCache
  <2>2. CASE GetUserInputs \/ OpenCache \/ WriteCache \/ Register \/ Quit
    BY <2>2 DEF GetUserInputs, OpenCache, WriteCache, Register, Quit
  <2>3. CASE Validate
    <3>1. ValidateIP(address) = "throws" => AsksUnlessTorn'
      BY <2>3 DEF Validate
    <3>2. ValidateIP(address) # "throws" => entry' # "threw"
      BY <2>3 DEF Validate, ValidateIP
    <3> QED
      BY <3>1, <3>2
  <2>4. CASE UNCHANGED entryVars
    BY <2>4 DEF entryVars
  <2> QED
    BY <2>1, <2>2, <2>3, <2>4 DEF EntryNext, Start
<1> QED
  BY <1>1, <1>2, CacheInvCorrect, PTL DEF PluginSpec

-----------------------------------------------------------------------------
(* The file is in pieces and nobody is about to write it.                  *)
TornAtRest == cache = Torn /\ entry # "write"

(* Only a start that found the file whole comes as far as to open it.      *)
TornInv == cache = Torn => entry \notin {"ask", "validate", "save"}

LEMMA TornStep ==
  ASSUME TornInv, EntryNext
  PROVE  TornInv' /\ (TornAtRest => TornAtRest')
<1> USE DEF TornInv, TornAtRest
<1>1. CASE BailOut \/ LoadCache
  BY <1>1 DEF BailOut, LoadCache
<1>2. CASE GetUserInputs
  BY <1>2 DEF GetUserInputs
<1>3. CASE Validate
  BY <1>3 DEF Validate
<1>4. CASE OpenCache
  BY <1>4 DEF OpenCache
<1>5. CASE WriteCache
  BY <1>5 DEF WriteCache
<1>6. CASE Register \/ Quit
  BY <1>6 DEF Register, Quit
<1>7. CASE UNCHANGED entryVars
  BY <1>7 DEF entryVars
<1> QED
  BY <1>1, <1>2, <1>3, <1>4, <1>5, <1>6, <1>7 DEF EntryNext, Start

(* No start repairs a file that was cut short: from then on, none of them  *)
(* ever comes to ask the user for an address.                              *)
THEOREM TornForGood == PluginSpec => [](TornAtRest => [](TornAtRest /\ entry # "ask"))
<1>1. PluginInit => TornInv
  BY EntryAssumption DEF PluginInit, EntryInit, TornInv, EntryAssumption
<1>2. TornInv /\ [PluginNext]_pluginVars => TornInv' /\ (TornAtRest => TornAtRest')
  BY StepOfEntry, TornStep
<1>3. TornInv /\ TornAtRest => entry # "ask"
  BY DEF TornInv, TornAtRest
<1> QED
  BY <1>1, <1>2, <1>3, PTL DEF PluginSpec

-----------------------------------------------------------------------------
(* Whatever happens at the starts, a controller in the plugin only takes   *)
(* steps of its own, so that the theorems about Safety hold in the plugin. *)
THEOREM ControllerIsSafe == PluginSpec => Safety
<1>1. PluginInit => Init
  BY DEF PluginInit
<1>2. [PluginNext]_pluginVars => [Next]_vars
  BY DEF PluginNext, pluginVars, Registered
<1> QED
  BY <1>1, <1>2, PTL DEF PluginSpec, Safety

(* In particular, whatever was entered, accepted and cached before it was  *)
(* registered, a controller never forgets a request, and as long as the    *)
(* host does not renumber its tracks, its answers show the selected one.   *)
THEOREM RegisteredControllerIsCorrect ==
  ASSUME ~Renumbering
  PROVE  PluginSpec => [](/\ TypeOK /\ ActiveIsRegistered /\ OneHapticTrackEach
                          /\ ActiveIsSelected /\ RepliesShowSelected /\ NoneForgotten)
  BY ControllerIsSafe, TypeCorrect, ActiveAlwaysRegistered, OneHapticTrackForEach,
     ActiveIsTheSelected, AnswersShowTheSelected, NoRequestIsForgotten, PTL

=============================================================================
