------------------------------ MODULE MCSleepWake ------------------------------
EXTENDS SleepWake

CONSTANTS web, db

MCWorkloads == {web, db}
=============================================================================
