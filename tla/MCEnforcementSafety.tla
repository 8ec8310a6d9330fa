------------------------ MODULE MCEnforcementSafety ------------------------
(***************************************************************************)
(* Two engines on the same hooks: a 1.5 engine (EXTENDS), and a 2.0 engine *)
(* that may plan a batch statement without asking, under enforcement only  *)
(* (Missed).                                                               *)
(***************************************************************************)
EXTENDS MCEnforcement

VARIABLE engine

Missed == INSTANCE Enforcement WITH EngineMajor <- 2, MissedHooks <- TRUE, LogOnlyValues <- {"false"}

Engine(name, Step) == engine = name /\ Step /\ UNCHANGED engine
EitherEngineStep == Engine("1.5", EngineStep) \/ Engine("2.0", Missed!EngineStep)
EitherHostStep == Engine("1.5", HostStep) \/ Engine("2.0", Missed!HostStep)

EitherInit == (engine = "1.5" /\ Init) \/ (engine = "2.0" /\ Missed!Init)
EitherVars == <<vars, engine>>
EitherSpec ==
  EitherInit /\ [][EitherHostStep \/ EitherEngineStep]_EitherVars /\ WF_EitherVars(EitherEngineStep)
=============================================================================
