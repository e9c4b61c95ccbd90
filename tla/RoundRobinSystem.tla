-------------------------- MODULE RoundRobinSystem --------------------------
(***************************************************************************)
(* The whole system under round robin: the clock, the generator, the       *)
(* message queue, the scheduler and a program for each process, every one  *)
(* of them stepping on its own.  The scheduler's steps are the actions of  *)
(* RoundRobin; what they take from their inputs there is what the other    *)
(* actors give them here.                                                  *)
(***************************************************************************)
EXTENDS RoundRobin, Feed, Programs

systemVars == <<vars, feedVars, programVars>>

SystemInit == Init /\ FeedInit /\ ProgramsInit

Pass ==
  /\ Tick
  /\ ProgramsReady
  /\ ReadClock
  /\ UNCHANGED <<rrVars, programVars>>

Reception ==
  /\ ReceiveProcess \/ RefuseProcess
  /\ TakeMessage
  /\ Fork

Turns ==
  /\ Algorithm
  /\ NoMessage
  /\ Ups

SchedulerStep == Pass \/ Reception \/ Turns

Second == ClockTick /\ NewSecond /\ UNCHANGED vars
GeneratorStep == Generator /\ UNCHANGED <<vars, programVars>>
ProgramStep(p) == Program(p) /\ UNCHANGED <<vars, feedVars>>

SystemNext ==
  \/ SchedulerStep
  \/ Second
  \/ GeneratorStep
  \/ \E p \in Procs : ProgramStep(p)

SystemSpec == SystemInit /\ [][SystemNext]_systemVars

\* The operating system lets every process of the simulation go on.
FairSystem ==
  /\ SystemSpec
  /\ WF_systemVars(SchedulerStep)
  /\ WF_systemVars(Second)
  /\ WF_systemVars(GeneratorStep)
  /\ \A p \in Procs : WF_systemVars(ProgramStep(p))

SystemTypeOK == TypeOK /\ FeedTypeOK /\ ProgramsTypeOK
=============================================================================
