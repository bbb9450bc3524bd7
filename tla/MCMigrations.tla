---------------------------- MODULE MCMigrations ----------------------------
(***************************************************************************)
(* An instance of Migrations for TLC: a build, its successor with one more *)
(* version, and a build in which a migration file was edited.              *)
(***************************************************************************)
EXTENDS MigrationsProperties

CONSTANTS old, new, edited, c1, c2, c3, d2, d3

Builds == [m \in {old, new, edited} |->
             CASE m = old    -> <<c1, c2>>
               [] m = new    -> <<c1, c2, c3>>
               [] m = edited -> <<c1, d2, d3>>]
=============================================================================
