SPECIFICATION Spec
CONSTANTS
  east = east west = west exporter = exporter importer = importer toolkit = toolkit
  vpc = vpc admin = admin assets = assets subnet = subnet bucket = bucket agentRole = agentRole eni = eni
  network = network storage = storage role = role stack = stack
  Regions <- TwoRegions
  Stacks <- AllStacks
  RegionOf <- InEast
  Infra <- OnlyToolkit
  Importers <- ImporterOfExporter
  Resources <- AllResources
  Owned <- StacksOwn
  Networking <- Interfaces
  Networked <- OnlyExporter
  Pooled <- OnlyImporter
  Concurrency = 2
  Global <- Roles
  HomeOf <- Homes
  Types <- AllTypes
  TypeOf <- ItemTypes
  Original <- Defaults
  Masked <- OnlyAgentRole
  Captures <- ThreeCaptures
INVARIANTS RefusedNeverClean
CHECK_DEADLOCK FALSE
