---------------------------- MODULE MCFactoryRun ----------------------------
(***************************************************************************)
(* FactoryRun with the two tokens of a campaign, with and without the      *)
(* selective first hour, and the schedules of its steps: captures on time, *)
(* as late as either contract allows, or a minute late; one or two of a    *)
(* window at a time.                                                       *)
(***************************************************************************)
EXTENDS FactorySchedule

MCDelays == {0, 60 * Second, Slack("WINDOW_15M", "TRACK_FAST"), Slack("WINDOW_15M", "TRACK_NORMAL"),
             Slack("WINDOW_1H", "TRACK_FAST"), Slack("WINDOW_1H", "TRACK_NORMAL")}

MCLateSets == {{i, j} : i, j \in 0 .. 23}
=============================================================================
