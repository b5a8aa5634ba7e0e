SPECIFICATION FairSpec
CONSTANTS
    r1 = r1  r2 = r2  c1 = c1
PROPERTIES RequestsAnswered WorkerGetsOn
\* The guest issues finitely many requests and then everything rests.
CHECK_DEADLOCK FALSE
