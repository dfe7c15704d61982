SPECIFICATION AdviceSpec
INVARIANT AdvisedRerunsRun
CHECK_DEADLOCK FALSE
