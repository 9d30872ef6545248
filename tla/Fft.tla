-------------------------------- MODULE Fft ---------------------------------
(***************************************************************************)
(* The sampling of trans/fft.h.  An interrupt handler passes one sample    *)
(* after the other to fft_exec_in, the main loop computes spectra with     *)
(* fft_exec.  Each works through a ring of Spsc under the policy REJECT,   *)
(* which nobody reads or resets: it fills from its first cell on, and a    *)
(* handler runs to its end before the main loop goes on.                   *)
(*                                                                         *)
(* Samples are numbered.  The transform and the search for the maximum are *)
(* functions of the window; a spectrum is named by the window it is of.    *)
(***************************************************************************)
EXTENDS Integers, Sequences

CONSTANTS
  Points,      \* points_num
  MaxSamples   \* a bound: samples passed

ASSUME FftAssumption == Points \in Nat \ {0} /\ MaxSamples \in Nat

VARIABLES
  samples,     \* passed so far
  cells, fill, \* the storage of the ring; wp, while rp stays 0
  need,        \* neet_exec
  main,        \* fft_exec: pc, and how much of the window is copied
  inbuf,       \* in->buf
  spectrum     \* the window of the last spectrum

fftVars == <<samples, cells, fill, need, main, inbuf, spectrum>>

Resting == [pc |-> "idle", i |-> 0]

FftInit ==
  /\ samples = 0 /\ fill = 0 /\ need = FALSE /\ main = Resting
  /\ cells = [i \in 1..Points |-> 0] /\ inbuf = cells /\ spectrum = <<>>

(* A mistake: every sample asks for a spectrum.                            *)
FftExecInAlways ==
  /\ samples < MaxSamples /\ samples' = samples + 1
  /\ IF fill < Points
     THEN cells' = [cells EXCEPT ![fill + 1] = samples'] /\ fill' = fill + 1
     ELSE UNCHANGED <<cells, fill>>
  /\ need' = TRUE
  /\ UNCHANGED <<main, inbuf, spectrum>>

(* A sample that the full ring refuses asks for a spectrum.                *)
FftExecIn ==
  /\ samples < MaxSamples /\ samples' = samples + 1
  /\ IF fill < Points
     THEN cells' = [cells EXCEPT ![fill + 1] = samples'] /\ fill' = fill + 1 /\ UNCHANGED need
     ELSE need' = TRUE /\ UNCHANGED <<cells, fill>>
  /\ UNCHANGED <<main, inbuf, spectrum>>

FftExec ==
  /\ main.pc = "idle" /\ need
  /\ main' = [pc |-> "copy", i |-> 1]
  /\ UNCHANGED <<samples, cells, fill, need, inbuf, spectrum>>

(* The memcpy of the storage as it lies, cell by cell.                     *)
FftCopy ==
  /\ main.pc = "copy"
  /\ inbuf' = [inbuf EXCEPT ![main.i] = cells[main.i]]
  /\ main' = IF main.i = Points THEN [pc |-> "transform", i |-> 0] ELSE [main EXCEPT !.i = @ + 1]
  /\ UNCHANGED <<samples, cells, fill, need, spectrum>>

FftTransform ==
  /\ main.pc = "transform"
  /\ spectrum' = inbuf /\ main' = [pc |-> "done", i |-> 0]
  /\ UNCHANGED <<samples, cells, fill, need, inbuf>>

FftDone ==
  /\ main.pc = "done"
  /\ need' = FALSE /\ main' = Resting
  /\ UNCHANGED <<samples, cells, fill, inbuf, spectrum>>

FftNext == FftExecIn \/ FftExec \/ FftCopy \/ FftTransform \/ FftDone

FftSpec == FftInit /\ [][FftNext]_fftVars

-----------------------------------------------------------------------------
(* A spectrum is of samples that were passed one right after the other,    *)
(* although the handler goes on while the window is copied: none missing,  *)
(* none of another window, none from before the ring was full.             *)
SpectrumIsOfOneWindow ==
  spectrum # <<>> => \A i \in 1..Points : spectrum[i] = spectrum[1] + i - 1 /\ spectrum[i] > 0
=============================================================================
