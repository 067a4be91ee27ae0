----------------------------- MODULE EntryPoint -----------------------------
(***************************************************************************)
(* The entry point of the plugin (src/main.cpp, src/ip.h), once per start  *)
(* of REAPER: the address of the device is read from a file, offered to    *)
(* the user, validated and written to the file again; then the connection  *)
(* action and the controller are registered.  Only the file outlives a     *)
(* crash.                                                                  *)
(***************************************************************************)
EXTENDS Naturals, Sequences

CONSTANTS
  Inputs,      (* what the user may enter                                  *)
  NoAddress,   (* the empty string                                         *)
  NoFile,      (* kiwi-ip.json does not exist                              *)
  Torn         (* kiwi-ip.json is empty or ends early                      *)

(* An input is the sequence of its tokens between the dots.                *)
(*   byte:           digits, up to 255                                     *)
(*   bracketed:      the same, followed by brackets, where stoi() stops    *)
(*   large:          digits, above 255                                     *)
(*   unconvertible:  begins with a bracket, or has more digits than an int *)
(*                   holds; stoi() throws at both                          *)
(*   text:           anything else, or nothing                             *)
Tokens == {"byte", "bracketed", "large", "unconvertible", "text"}

ASSUME EntryAssumption ==
  /\ Inputs \subseteq Seq(Tokens)
  /\ NoAddress \notin Inputs /\ NoFile \notin Inputs /\ Torn \notin Inputs /\ NoFile # Torn

VARIABLES
  cache,       (* kiwi-ip.json                                             *)
  address,     (* addr, then ADDRESS                                       *)
  entry,       (* where the entry point is                                 *)
  cut          (* history: was the last write of the file cut short?       *)

entryVars == <<cache, address, entry, cut>>

(* isNumber() lets brackets pass.                                          *)
IsAccepted(token) == token \in {"byte", "bracketed"}

(* Tokens are tested in order, up to the first that is not accepted.       *)
ValidateIP(ip) ==
  IF Len(ip) # 4 THEN "no"
  ELSE IF \A k \in 1 .. 4 : IsAccepted(ip[k]) THEN "yes"
  ELSE IF \E k \in 1 .. 4 : /\ ip[k] = "unconvertible"
                            /\ \A m \in 1 .. k - 1 : IsAccepted(ip[m])
    THEN "throws"
    ELSE "no"

(* What getaddrinfo() makes an address of.                                 *)
IsAddress(ip) == Len(ip) = 4 /\ \A k \in 1 .. 4 : ip[k] = "byte"

EntryInit ==
  /\ cache = NoFile /\ address = NoAddress /\ entry = "off" /\ cut = FALSE

-----------------------------------------------------------------------------
(* get_ip_address().                                                       *)

(* A function is missing in the host, or the host has another version.     *)
BailOut ==
  /\ entry = "off"
  /\ entry' = "refused"
  /\ UNCHANGED <<cache, address, cut>>

(* A bug for AsksUnlessTorn: opening the file to read it creates it anew.  *)
LoadAndTruncate ==
  /\ entry = "off"
  /\ IF cache = Torn THEN entry' = "threw" ELSE entry' = "ask"
  /\ cache' = Torn
  /\ UNCHANGED <<address, cut>>

(* Parsing a file that ends early throws out of the entry point.           *)
LoadCache ==
  /\ entry = "off"
  /\ IF cache = Torn THEN entry' = "threw" ELSE entry' = "ask"
  /\ UNCHANGED <<cache, address, cut>>

(* The user may cancel, enter something, or confirm what is offered, which *)
(* is an input of an earlier start.                                        *)
GetUserInputs ==
  /\ entry = "ask"
  /\ \/ address' = NoAddress /\ entry' = "register"
     \/ address' \in Inputs /\ entry' = "validate"
  /\ UNCHANGED <<cache, cut>>

(* A bug for OfferIsAccepted: the address is cached in any case.           *)
ValidateLater ==
  /\ entry = "validate"
  /\ IF ValidateIP(address) = "throws" THEN entry' = "threw" ELSE entry' = "save"
  /\ UNCHANGED <<cache, address, cut>>

Validate ==
  /\ entry = "validate"
  /\ CASE ValidateIP(address) = "yes"    -> entry' = "save" /\ UNCHANGED address
       [] ValidateIP(address) = "no"     -> entry' = "register" /\ address' = NoAddress
       [] ValidateIP(address) = "throws" -> entry' = "threw" /\ UNCHANGED address
  /\ UNCHANGED <<cache, cut>>

(* Opening the file truncates it, or fails, which is ignored.              *)
OpenCache ==
  /\ entry = "save"
  /\ \/ cache' = Torn /\ entry' = "write"
     \/ UNCHANGED cache /\ entry' = "register"
  /\ UNCHANGED <<address, cut>>

(* So is a write that fails.                                               *)
WriteCache ==
  /\ entry = "write"
  /\ \/ cache' = address /\ cut' = FALSE
     \/ cut' = TRUE /\ UNCHANGED cache
  /\ entry' = "register"
  /\ UNCHANGED address

-----------------------------------------------------------------------------
(* The rest of the entry point.                                            *)

(* The actions, and the controller if its two sockets open.  For an empty  *)
(* address connectTo() binds a socket instead of connecting it, which      *)
(* succeeds: then the controller is registered without a device.  The      *)
(* string with the address goes out of scope.                              *)
Register ==
  /\ entry = "register"
  /\ \/ (address # NoAddress => IsAddress(address)) /\ entry' = "registered"
     \/ entry' = "refused"
  /\ address' = NoAddress
  /\ UNCHANGED <<cache, cut>>

(* REAPER ends or is killed, and may be started again.                     *)
Quit ==
  /\ entry # "off"
  /\ entry' = "off" /\ address' = NoAddress
  /\ cut' = (cut \/ entry = "write")
  /\ UNCHANGED cache

Start ==
  \/ BailOut \/ LoadCache \/ GetUserInputs \/ Validate
  \/ OpenCache \/ WriteCache \/ Register

-----------------------------------------------------------------------------
(* Properties.                                                             *)

(* "load cached ip address (if it exists)" (main.cpp:61): unless the last  *)
(* write was cut short, by a crash or a full disk, no start fails before   *)
(* the user is asked; what makes it fail later is what the user enters.    *)
AsksUnlessTorn ==
  entry = "threw" => cut \/ (address # NoAddress /\ ValidateIP(address) = "throws")

(* "cache the IP address if we validated successfully" (main.cpp:92): an   *)
(* address that is offered, in whichever start it was entered, is accepted *)
(* when the user confirms it.                                              *)
OfferIsAccepted ==
  entry = "ask" /\ cache \in Inputs => ValidateIP(cache) = "yes"

=============================================================================
