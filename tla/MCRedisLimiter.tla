---------------------------- MODULE MCRedisLimiter ----------------------------
(* Two intervals of burst, callers one unit off, and an entry that lives just *)
(* as long as the debt it records.                                            *)
EXTENDS RedisLimiter

TightTTL == Burst * Interval + 2 * Skew
==============================================================================
