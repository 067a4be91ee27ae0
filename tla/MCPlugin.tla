------------------------------ MODULE MCPlugin ------------------------------
(* Instances of Plugin for TLC: requests that share a packet with a change *)
(* of mode, with each other, or with a malformed message; and an input for *)
(* each way a start may go.                                                *)
EXTENDS Plugin, TLC

Pixels(r) == [kind |-> "pixels", arg |-> r]
Say(k)    == [kind |-> k, arg |-> "none"]
Mode(m)   == [kind |-> "set_mode", arg |-> m]

TwoPackets ==
  {<<Pixels("r1"), Pixels("r2")>>,
   <<Say("flush_map"), Mode("meter"), Say("other"), Say("malformed"), Pixels("r3")>>}

FiveInputs ==
  {<<"byte", "byte", "byte", "byte">>, <<"byte", "bracketed", "byte", "large">>,
   <<"bracketed", "unconvertible", "byte", "large">>, <<"byte", "large", "unconvertible", "byte">>,
   <<"text">>}

=============================================================================
