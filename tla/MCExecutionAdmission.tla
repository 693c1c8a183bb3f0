------------------------- MODULE MCExecutionAdmission -------------------------
EXTENDS ExecutionAdmission

================================================================================
