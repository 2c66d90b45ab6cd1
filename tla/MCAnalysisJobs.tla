--------------------------- MODULE MCAnalysisJobs ---------------------------
(* A video and an article.  The service starts on an empty database, on one  *)
(* with a transcript, on one with a strategy, and on one with a backtest.    *)
EXTENDS AnalysisJobs

Video == [kind |-> "youtube", name |-> "v"]
Article == [kind |-> "article", name |-> "a"]

Empty == [contents |-> << >>, transcripts |-> << >>, extractions |-> << >>, backtests |-> << >>,
          analyses |-> << >>]
Transcribed == [Empty EXCEPT !.contents = <<Video>>, !.transcripts = <<1>>]
Extracted == [Transcribed EXCEPT !.extractions =
                  <<[of |-> 1, spec |-> TRUE, parses |-> TRUE, cost |-> 15]>>]
Backtested == [Extracted EXCEPT !.backtests =
                   <<[of |-> [extraction |-> 1, window |-> [from |-> 1, to |-> 5]], bars |-> {1, 2, 4}]>>]

MCSources == {Video, Article}
MCDatabases == {Empty, Transcribed, Extracted, Backtested}
MCWindows == {[from |-> 0, to |-> 3], [from |-> 1, to |-> 5], [from |-> 4, to |-> 6],
              [from |-> 5, to |-> 7]}
=============================================================================
