SPECIFICATION Spec

INVARIANT RewardIsBigInteger
