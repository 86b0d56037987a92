---------------------------- MODULE MCSourceGateway ----------------------------
(* Small instances of SourceGateway: see the configurations.               *)
EXTENDS SourceGateway

CONSTANTS Tries, Parts, Valid

MCAttempts == [c \in Stimuli |-> IF c \in Heartbeats THEN 1 ELSE Tries]
MCPackets == [c \in Stimuli |-> IF c \in Heartbeats THEN 1 ELSE Parts]
MCValidity == [c \in Stimuli |-> Valid]
================================================================================
