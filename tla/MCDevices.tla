----------------------------- MODULE MCDevices ------------------------------
(***************************************************************************)
(* Two devices with a thread or a clock of their own, one at a time: the   *)
(* sound card of NEMU, and the flash of ysyxSoC behind its SPI master.     *)
(* The other one keeps its initial state.  Two flash words with distinct   *)
(* bytes, so a wrong address, a stale word and a missing byte swap show.   *)
(***************************************************************************)
EXTENDS NemuAudio, XipFlash, TLC

MCAddr == {0, 4}
MCByte == {1, 2}
MCFlash == (0 :> <<1, 2>>) @@ (4 :> <<2, 1>>)

VARIABLE part   \* the device that runs

devVars == <<part, audioVars, vars>>
DevInit == part \in {"audio", "xip"} /\ audioInit /\ Init

AudioStep(A) == part = "audio" /\ A /\ UNCHANGED <<part, vars>>
XipStep(A) == part = "xip" /\ A /\ UNCHANGED <<part, audioVars>>

DevNext == AudioStep(audioNext) \/ XipStep(Next)

\* The fairness of audioFairSpec and of FairSpec.
DevSpec ==
    /\ DevInit /\ [][DevNext]_devVars
    /\ WF_devVars(AudioStep(Guest)) /\ WF_devVars(AudioStep(Sdl))
    /\ WF_devVars(XipStep(Tick)) /\ WF_devVars(XipStep(SpiLast /\ Tick))

=============================================================================
