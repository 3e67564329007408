------------------------------ MODULE Frontends ------------------------------
(***************************************************************************)
(* The three ways to the backend from a browser: the React frontend a host *)
(* has built in, the page at /ui in a frame, or the views the platform's   *)
(* dashboard draws from the extension's manifest.  A person has one of     *)
(* them.                                                                   *)
(***************************************************************************)
EXTENDS Console, InlinePage, Manifest

VARIABLE frontend

frontendVars == <<frontend, vars, inlineVars, manifestVars>>

\* What is not opened stays as it would begin.
FrontendInit ==
  /\ inlineInit
  /\ \/ /\ frontend = "react" /\ Init
        /\ manifest = CHOOSE m \in Manifests : TRUE
        /\ verdict = "none"
     \/ /\ frontend \in {"inline", "dashboard"}
        /\ Init
        /\ page = "metrics" /\ granted = CHOOSE g \in Granted : TRUE
        /\ manifestInit
        /\ frontend = "inline" => manifest = CHOOSE m \in Manifests : TRUE

FrontendNext ==
  /\ UNCHANGED frontend
  /\ \/ frontend = "react" /\ Next /\ UNCHANGED <<inlineVars, manifestVars>>
     \/ frontend = "inline" /\ inlineNext /\ UNCHANGED <<vars, manifestVars>>
     \/ frontend = "dashboard" /\ manifestNext /\ UNCHANGED <<vars, inlineVars>>

FrontendSpec == FrontendInit /\ [][FrontendNext]_frontendVars

FairFrontendSpec ==
  FrontendSpec /\ (frontend = "inline" => inlineFairness)
==============================================================================
