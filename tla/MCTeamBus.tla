----------------------------- MODULE MCTeamBus -----------------------------
EXTENDS TeamBus
=============================================================================
