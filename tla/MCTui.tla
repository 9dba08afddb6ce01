---- MODULE MCTui ----
EXTENDS PytestTui
CONSTANT t1
TuiTests == <<t1>>
====
