----------------------------- MODULE PerfModes -----------------------------
(***************************************************************************)
(* What the daemon promises about its modes, with every call of the daemon *)
(* one step: when it is alive it serves one edition, runs at most one game *)
(* and is in the mode that goes with it.  Module ScandiumPerfd implements  *)
(* this specification.                                                     *)
(***************************************************************************)
EXTENDS PerfProfile

CONSTANTS Games, NoApp

VARIABLES alive, edition, mode, game, active

modeVars == <<alive, edition, mode, game, active>>

InDefault(e) ==
    /\ mode' = "DEFAULT"
    /\ game' = NoApp
    /\ active' = get_profile(e)

InGaming(g) ==
    /\ mode' = "GAMING"
    /\ game' = g
    /\ active' = get_gaming_profile(edition)

(* A process comes up in DEFAULT mode, whatever an earlier one was doing.  *)
Start(e) == ~alive /\ alive' = TRUE /\ edition' = e /\ InDefault(e)

Stop == alive /\ alive' = FALSE /\ edition' = "CASUAL" /\ InDefault("CASUAL")

(* Any other game takes over at once, from a throttled game too.           *)
Enter(g) == alive /\ g # game /\ InGaming(g) /\ UNCHANGED <<alive, edition>>

Leave == alive /\ game # NoApp /\ InDefault(edition) /\ UNCHANGED <<alive, edition>>

Sustain ==
    /\ alive /\ mode = "GAMING"
    /\ mode' = "SUSTAINED"
    /\ active' = SustainedProfile
    /\ UNCHANGED <<alive, edition, game>>

(* Only the game that was throttled comes back.                            *)
Resume == alive /\ mode = "SUSTAINED" /\ InGaming(game) /\ UNCHANGED <<alive, edition>>

(* A new edition waits for the end of the game.                            *)
ChangeEdition(e) ==
    /\ alive /\ e # edition
    /\ edition' = e
    /\ IF mode = "DEFAULT" THEN InDefault(e) ELSE UNCHANGED <<mode, game, active>>
    /\ UNCHANGED alive

ModesInit ==
    /\ alive = FALSE
    /\ edition = "CASUAL"
    /\ mode = "DEFAULT" /\ game = NoApp /\ active = get_profile("CASUAL")

ModesNext ==
    \/ \E e \in Editions : Start(e) \/ ChangeEdition(e)
    \/ \E g \in Games : Enter(g)
    \/ Stop \/ Leave \/ Sustain \/ Resume

ModesSpec == ModesInit /\ [][ModesNext]_modeVars
=============================================================================
