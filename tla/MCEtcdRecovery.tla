---------------------------- MODULE MCEtcdRecovery ----------------------------
EXTENDS EtcdRecovery, TLC

CONSTANTS cron, manual

MCJobs == {cron, manual}
OneJob == {cron}
=============================================================================
