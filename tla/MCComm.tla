------------------------------- MODULE MCComm -------------------------------
(***************************************************************************)
(* The components that meet an actor outside of them, the system, another  *)
(* process or an interrupt, side by side: each behaviour is one of the     *)
(* component that part names, while the others rest as they were           *)
(* initialised.  They share nothing.                                       *)
(***************************************************************************)
EXTENDS Net, Shm, Channels, Fft, TLC

VARIABLE part

all == <<part, netVars, shmVars, channelVars, fftVars>>

Init ==
  /\ part \in {"net", "shm", "channels", "fft"}
  /\ NetInit /\ ShmInit /\ ChannelsInit /\ FftInit
  /\ part # "net" => os = "linux"
  /\ part # "shm" => keeps
  /\ part # "channels" => ~windows

Next ==
  /\ UNCHANGED part
  /\ \/ part = "net" /\ NetNext /\ UNCHANGED <<shmVars, channelVars, fftVars>>
     \/ part = "shm" /\ ShmNext /\ UNCHANGED <<netVars, channelVars, fftVars>>
     \/ part = "channels" /\ ChannelsNext /\ UNCHANGED <<netVars, shmVars, fftVars>>
     \/ part = "fft" /\ FftNext /\ UNCHANGED <<netVars, shmVars, channelVars>>

Spec == Init /\ [][Next]_all /\ NetFairness
=============================================================================
