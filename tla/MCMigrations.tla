----------------------------- MODULE MCMigrations -----------------------------
(* Instance for TLC: two sessions, and targets on both sides of the         *)
(* revisions that look for tables of Celery and APScheduler.                *)
EXTENDS Migrations

CONSTANTS m1, m2

MCCommands == {m1, m2}
MCGoals == {0, 8, 10, 13}
=============================================================================
