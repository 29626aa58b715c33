---------------------------- MODULE PlayerAnim -----------------------------
(* Which animation the player shows: UAZAnimInstance_Player and the notifies *)
(* that write its members.  Input, notifies and blueprints only leave        *)
(* requests; NativeUpdateAnimation serves them, a frame later.  A request    *)
(* names its montage or section, and whether there is one of that name shows *)
(* only when it is served.                                                   *)
EXTENDS Integers, FiniteSets

CONSTANTS NoName,               \* NAME_None
          Montages, Sequences,  \* names that a request may give
          Loads,                \* those for which there is an asset
          Base, Default,        \* the first montage and the first section
          Sections              \* Sections[m]: the section names of a montage

ASSUME PlayerAnimAssumption ==
  /\ NoName \notin Montages \cup Sequences /\ Montages \cap Sequences = {}
  /\ Base \in Montages \cap Loads
  /\ \A m \in Montages : Default \in Sections[m] /\ NoName \notin Sections[m]

VARIABLES anim,     \* the members of UAZAnimInstance_Player
          played,   \* the engine's instance of current_anim_montage_
          pauses,   \* history: the modes whose pause is not taken back
          nested    \* history: one pause was made while another lasted

poseVars == <<anim, played, pauses, nested>>

Modes == {"montage", "sequence"}
Rates == {0, 15000, 20000}
AllSections == UNION {Sections[m] : m \in Montages}
Mode == IF anim.is_montage THEN "montage" ELSE "sequence"

Members ==
  [is_montage : BOOLEAN, due : BOOLEAN, rate : Rates,
   montage : Montages, name : Montages \cup {NoName},
   section : AllSections \cup {NoName}, sequence : Sequences \cup {NoName},
   nextMontage : Montages \cup {NoName}, nextSection : AllSections \cup {NoName},
   nextSequence : Sequences \cup {NoName}]

\* the constructor and NativeInitializeAnimation, which plays Base but leaves
\* current_montage_name_ and current_section_name_ at None
AnimInit ==
  /\ anim = [is_montage |-> TRUE, due |-> FALSE, rate |-> 20000,
             montage |-> Base, name |-> NoName, section |-> NoName,
             sequence |-> NoName,
             nextMontage |-> NoName, nextSection |-> NoName, nextSequence |-> NoName]
  /\ played = [state |-> "plays", rate |-> 20000]
  /\ pauses = {} /\ nested = FALSE

----------------------------------------------------------------------------
(* OnAnimationTransitionTrigger, in two steps of montage mode.               *)
\* UAZPlayerAssetMgr::GetMontage and GetSequence: the asset, or none
GetMontage(name)  == name \in Montages \cap Loads
GetSequence(name) == name \in Sequences \cap Loads
GoesTo(a) ==
  /\ a.nextMontage # NoName /\ a.nextMontage # a.name /\ GetMontage(a.nextMontage)
\* Mutant: the section of the old montage stays current.
ChangeMontageKeepsSection(a) ==
  [a EXCEPT !.nextMontage = NoName,
            !.montage = IF GoesTo(a) THEN a.nextMontage ELSE @,
            !.name    = IF GoesTo(a) THEN a.nextMontage ELSE @]
ChangeMontage(a) ==
  [a EXCEPT !.nextMontage = NoName,
            !.montage = IF GoesTo(a) THEN a.nextMontage ELSE @,
            !.name    = IF GoesTo(a) THEN a.nextMontage ELSE @,
            !.section = IF GoesTo(a) THEN Default ELSE @]
ChangeSection(a) ==
  [a EXCEPT !.nextSection = NoName,
            !.section = CASE a.nextSection = NoName -> Default
                          [] a.nextSection \in Sections[a.montage] -> a.nextSection
                          [] OTHER -> @]
\* a sequence that does not load stays requested
ChangeSequence(a) ==
  IF GetSequence(a.nextSequence)
  THEN [a EXCEPT !.sequence = a.nextSequence, !.nextSequence = NoName] ELSE a

\* NativeUpdateAnimation: the condition it else asks for is bound to FALSE
NativeUpdateAnimation ==
  /\ anim.due
  /\ anim' = [(IF anim.is_montage THEN ChangeSection(ChangeMontage(anim))
                                  ELSE ChangeSequence(anim)) EXCEPT !.due = FALSE]
  /\ played' = IF anim.is_montage /\ GoesTo(anim)
               THEN [state |-> "plays", rate |-> anim.rate] ELSE played
  /\ UNCHANGED <<pauses, nested>>

Requests(a) == anim' = a /\ UNCHANGED <<played, pauses, nested>>

SetDirectAnimSequence(s) ==
  Requests([anim EXCEPT !.is_montage = FALSE, !.due = TRUE, !.nextSequence = s])
SetDirectAnimMontage(m) ==
  Requests([anim EXCEPT !.is_montage = TRUE, !.due = TRUE, !.nextMontage = m])
SetDirectSection(s) ==
  Requests([anim EXCEPT !.is_montage = TRUE, !.due = TRUE, !.nextSection = s])
SetNextAnimMontage(m) ==
  Requests([anim EXCEPT !.is_montage = TRUE, !.nextMontage = m])
SetNextSection(s) ==
  Requests([anim EXCEPT !.is_montage = TRUE, !.nextSection = s])
\* UAZAnimNotify_ChangeMontage::Notify and UAZAnimNotify_ActionStart::Notify
Notify_ChangeMontage(m, s) ==
  Requests([anim EXCEPT !.is_montage = TRUE, !.due = TRUE,
                        !.nextMontage = m, !.nextSection = s])
Notify_ActionStart ==
  Requests([anim EXCEPT !.is_montage = TRUE, !.due = TRUE])

----------------------------------------------------------------------------
\* SetAnimPlayRate: a montage that is held, or over, does not take the new rate
SetAnimPlayRate(r) ==
  /\ anim' = [anim EXCEPT !.rate = r]
  /\ played' = IF played.state = "plays" THEN [played EXCEPT !.rate = r] ELSE played

PauseAnimation ==
  /\ IF anim.is_montage
     THEN /\ played' = [played EXCEPT !.state = IF @ = "plays" THEN "held" ELSE @]
          /\ UNCHANGED anim
     ELSE SetAnimPlayRate(0)
  /\ pauses' = pauses \cup {Mode}
  /\ nested' = (nested \/ pauses # {})

\* Mutant: a sequence is not set going again.
ResumeMontageOnly ==
  /\ played' = [played EXCEPT !.state = IF @ = "held" THEN "plays" ELSE @]
  /\ pauses' = pauses \ {Mode}
  /\ UNCHANGED <<anim, nested>>

ResumeAnimation ==
  /\ IF anim.is_montage
     THEN /\ played' = [played EXCEPT !.state = IF @ = "held" THEN "plays" ELSE @]
          /\ UNCHANGED anim
     ELSE SetAnimPlayRate(15000)
  /\ pauses' = pauses \ {Mode}
  /\ UNCHANGED nested

\* a blueprint sets the speed of an attack
ChangeRate == SetAnimPlayRate(15000) /\ UNCHANGED <<pauses, nested>>

\* the engine: a montage comes to its end
MontageEnds ==
  /\ played.state = "plays" /\ played.rate > 0
  /\ played' = [played EXCEPT !.state = "over"]
  /\ UNCHANGED <<anim, pauses, nested>>

AnimNext ==
  \/ NativeUpdateAnimation
  \/ \E s \in Sequences : SetDirectAnimSequence(s)
  \/ \E m \in Montages :
       \/ SetDirectAnimMontage(m) \/ SetNextAnimMontage(m)
       \/ \E s \in AllSections \cup {NoName} : Notify_ChangeMontage(m, s)
  \/ \E s \in AllSections : SetDirectSection(s) \/ SetNextSection(s)
  \/ Notify_ActionStart
  \/ PauseAnimation \/ ResumeAnimation \/ ChangeRate \/ MontageEnds

AnimSpec == AnimInit /\ [][AnimNext]_poseVars

----------------------------------------------------------------------------
AnimTypeOK ==
  /\ anim \in Members
  /\ played \in [state : {"plays", "held", "over"}, rate : Rates]
  /\ pauses \subseteq Modes /\ nested \in BOOLEAN

(* The section that is called current is one of the montage that is played,  *)
(* whichever of the two a request changed, and whichever could not be served *)
(* (AZAnimInstance_Player.cpp:94-136: a section asked for with a montage is  *)
(* jumped to in the old montage when the new one does not load).             *)
SectionFitsMontage == anim.section # NoName => anim.section \in Sections[anim.montage]

StandsStill ==
  IF anim.is_montage THEN played.state = "held" \/ (played.state = "plays" /\ played.rate = 0)
                     ELSE anim.rate = 0

(* The animation stands still only while some pause has not been taken back  *)
(* in the mode it was made in, though a mode change may come in between and  *)
(* both modes share one rate.  Pauses made in both modes at once are left    *)
(* out: a held montage misses the rate that the other mode's resume sets.    *)
StandsStillOnlyWhenPaused == ~nested => (StandsStill => pauses # {})
=============================================================================
