--------------------------- MODULE MCJsWorkerPool ---------------------------
EXTENDS JsWorkerPool, TLC
=============================================================================
