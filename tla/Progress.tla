------------------------------ MODULE Progress ------------------------------
(* Objective and Goal progress (domain/progress.py).  A percentage is its     *)
(* number of hundredths, a ratio of two integers before it is rounded.        *)
EXTENDS Integers, FiniteSets, FiniteSetsExt

HUNDRED == 100 * 100

(* Half up, to a hundredth, of a non-negative ratio.                          *)
quantize(num, den) == (2 * num + den) \div (2 * den)

(* clamp_percent() and quantize() of num / den, den # 0.                      *)
Percent(num, den) ==
    LET n == IF den < 0 THEN -num ELSE num
        d == IF den < 0 THEN -den ELSE den
    IN  IF n <= 0 THEN 0 ELSE IF n >= d THEN HUNDRED ELSE quantize(n * HUNDRED, d)

(* Baseline 0 stands for no baseline where more is better.                    *)
validate_range(o) == IF o.higher THEN o.target # 0 ELSE o.baseline # o.target

objective_progress(o) ==
    IF o.higher THEN Percent(o.current, o.target)
    ELSE Percent(o.baseline - o.current, o.baseline - o.target)

(* The weighted mean of objectives[i] for i \in S.                            *)
goal_progress(objectives, S) ==
    LET total == FoldSet(LAMBDA i, n : n + objectives[i].weight, 0, S)
        weighted == FoldSet(LAMBDA i, n : n + objectives[i].progress * objectives[i].weight, 0, S)
    IN  IF total <= 0 THEN 0 ELSE quantize(weighted, total)
=============================================================================
