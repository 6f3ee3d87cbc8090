SPECIFICATION Spec
CONSTANTS
  Width = 4
  Directives <- AllDirectives
  Fragments <- AllFragments
  Conditions <- AllConditions
  MaxDirectives = 2
  MaxFragments = 4
CONSTRAINT Acyclic
INVARIANTS ExpandsAsC Readable EvaluatesAsC
CHECK_DEADLOCK FALSE
