------------------------------- MODULE Application ------------------------------
(****************************************************************************)
(* A lifespan whose startup loads the settings (docs/13-settings.md:44):     *)
(* Lifecycle and Settings together. Other loads run on other threads.        *)
(****************************************************************************)
EXTENDS Lifecycle, Settings

CONSTANTS
  Loads,  \* the lifespan that loads the settings
  OwnLoad   \* its call of load

ASSUME LoadsAssumption == Loads \in 1 .. N /\ OwnLoad \in Loader

ApplicationInit == Init /\ SettingsInit

InStartup == stage = "starting" /\ config = "lifespans" /\ next = Loads

\* The lifespan's load is called in its startup, any other at any time.
CallLoad(l) == (l = OwnLoad => InStartup) /\ Acquire(l) /\ UNCHANGED app

Load(l) == Loading(l) /\ UNCHANGED app

\* `Config::load()?`: a failed load fails the startup. What comes after it may, too.
StartLoaded ==
  /\ InStartup => load[OwnLoad].at = "done"
  /\ StartLifespan
  /\ InStartup /\ stage' = "starting" => load[OwnLoad].result.status = "loaded"
  /\ UNCHANGED settings

\* Every other step of the life of the application.
Lives ==
  /\ \/ Validate \/ RollBack \/ RolledBack \/ StartHook \/ Started \/ Build \/ Bind
     \/ ReadyHook \/ Serve \/ Signal \/ ServeEnds \/ Teardown
  /\ UNCHANGED settings

ApplicationNext ==
  \/ \E l \in Loader : CallLoad(l) \/ Load(l)
  \/ StartLoaded
  \/ Lives

ApplicationSpec == ApplicationInit /\ [][ApplicationNext]_<<app, settings>>

=============================================================================
