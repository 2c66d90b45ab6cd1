-------------------------- MODULE MCTier3Simulator --------------------------
(* Histories of five bars drawn from five shapes, and nine specs. *)
EXTENDS Tier3Simulator

Bar(o, l, h, c, raw, exit) ==
    [open |-> o, low |-> l, high |-> h, close |-> c, raw |-> raw, exit |-> exit]

MCBars == {
    Bar(10,  9, 14, 13, TRUE,  FALSE),   \* a rally that signals
    Bar(10, 10, 10, 10, TRUE,  TRUE),    \* flat, signals and exits
    Bar(10,  6, 11,  7, FALSE, FALSE),   \* a crash through any stop
    Bar( 6,  6,  8,  8, TRUE,  FALSE),   \* opens below every stop
    Bar(14, 13, 16, 15, FALSE, TRUE)}    \* opens above every target

Gate(type, pred, n, negated) == [type |-> type, pred |-> pred, n |-> n, negated |-> negated]
Method(kind, value) == [kind |-> kind, value |-> value]
Rules(gate, stop, target, exit, maxBars, riskSized) ==
    [gate |-> gate, stop |-> stop, target |-> target, exit |-> exit,
     maxBars |-> maxBars, riskSized |-> riskSized]

NoMethod == Method("none", 0)
SkipAfterWinner == Gate("prior_signal", "last_would_have_won", 1, TRUE)

MCStrategies == {
    Rules(SkipAfterWinner, Method("percent", 2), NoMethod, "series", NONE, FALSE),
    Rules(SkipAfterWinner, Method("trailing_percent", 2), NoMethod, "none", 2, FALSE),
    Rules(Gate("prior_signal", "last_fired", 1, TRUE),
          Method("trailing_atr", 2), Method("r_multiple", 1), "none", NONE, FALSE),
    Rules(Gate("prior_signal", "last_would_have_lost", 1, TRUE),
          Method("atr_multiple", 1), Method("atr_multiple", 3), "none", 1, TRUE),
    Rules(Gate("prior_trade", "last_won", 1, TRUE),
          Method("fixed_price", 8), Method("percent", 4), "ratchet", NONE, FALSE),
    Rules(Gate("prior_trade", "last_lost", 1, TRUE),
          NoMethod, Method("fixed_price", 12), "series", NONE, FALSE),
    Rules(Gate("prior_trade", "consecutive_losses_at_least", 2, TRUE),
          Method("percent", 1), NoMethod, "none", 1, FALSE),
    Rules(Gate("prior_trade", "consecutive_wins_at_least", 1, TRUE),
          NoMethod, NoMethod, "ratchet", NONE, FALSE),
    Rules(Gate("prior_trade", "bars_since_last_at_least", 2, TRUE),
          Method("percent", 2), NoMethod, "series", NONE, FALSE)}
=============================================================================
