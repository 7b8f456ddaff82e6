---------------------------- MODULE MCSubscriber ----------------------------
(***************************************************************************)
(* Instances of Subscriber for the datagrams of MCDatagrams.  TLC          *)
(* evaluates a table once when the cfg does not name it, hence the         *)
(* definitions in between.                                                 *)
(***************************************************************************)
EXTENDS Subscriber, MCDatagrams

MCDecoded == AllDecoded
MCShows   == AllLines
=============================================================================
