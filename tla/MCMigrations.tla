---------------------------- MODULE MCMigrations ----------------------------
EXTENDS Migrations
CONSTANTS p1, p2, p3
=============================================================================
