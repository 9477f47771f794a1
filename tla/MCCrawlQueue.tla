---------------------------- MODULE MCCrawlQueue ----------------------------
EXTENDS CrawlQueue, TLC

\* Workers are interchangeable; a run with liveness does not use this.
Symm == Permutations(Worker)
=============================================================================
