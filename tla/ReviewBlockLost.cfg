SPECIFICATION Spec
CONSTANTS
  PathKinds = {"workflow", "review_gate", "spec", "handlers", "service", "tests", "docs"}
  Dimensions = {"template_compliance", "architecture_boundary", "protected_paths", "spec_coverage", "yaml_validation", "semantic_review"}
  Blocking = {"template_compliance", "architecture_boundary", "protected_paths", "spec_coverage", "yaml_validation"}
  Advisory = {"semantic_review"}
  MaxReports = 5
INVARIANT BlockIfAnyBlockingCheckFails
CHECK_DEADLOCK FALSE
